---- MODULE Spec2Model ----
(***************************************************************************)
(* FocusTracker (src/src/focus_tracker.py): the focus scorer, the          *)
(* distraction state machine, the session event log and its statistics,    *)
(* the phone detector's capability flag and the camera; the frame thread   *)
(* of the window (src/src/gui_manager_modern.py) that drives it; and        *)
(* SessionManager (src/src/session_manager.py): sessions, pauses, the      *)
(* timer thread and the saved records.                                     *)
(*                                                                         *)
(* Units.  Scores are fixed-point: ScoreOne stands for 1.0, so that every   *)
(* weight, interpolation step and penalty of the scorer is an integer for  *)
(* whole-degree angles and the three sensitivity presets (exact rational   *)
(* arithmetic; the last-bit rounding of IEEE doubles is not represented).   *)
(* avg_ear is in tenths, angles in whole degrees, time in whole seconds.    *)
(***************************************************************************)
EXTENDS Integers, Sequences, FiniteSets, TLC

\* ---------------------------------------------------------------- bounds
MaxTime == 5        \* the wall clock runs from 0 to MaxTime seconds
MaxEvents == 3      \* frames logged per tracking session
MaxPitch == 50      \* pitch angles compared with one another, in degrees
MaxCameraIndex == 1 \* capture devices are numbered 0..MaxCameraIndex
MaxSessions == 2    \* sessions a SessionManager starts

\* ------------------------------------------------------ program constants
ScoreOne == 420000                 \* 1.0
EyeWeight == 84000                 \* 0.2
SquintScore == 42000               \* 0.1
PartialScore == 21000              \* 0.05
PitchWeight == 168000              \* 0.4
YawWeight == 168000                \* 0.4
PitchFullRange == 15               \* degrees with full pitch points
YawFullRange == 20                 \* degrees with full yaw points
PHONE_PENALTY == 30                \* 0.3, in hundredths
HAND_NEAR_FACE_PENALTY == 15       \* 0.15, in hundredths
Hundredths == 100
EYE_OPEN_THRESHOLD == 35           \* 3.5
EYE_SQUINT_THRESHOLD == 50         \* 5.0
EYE_CLOSED_THRESHOLD == 60         \* 6.0
HalfScore == 210000                \* 0.5, the initial FOCUS_THRESHOLD
PHONE_CONFIDENCE_THRESHOLD == 25   \* 0.25, in hundredths
FullPercentage == 420000           \* focus_percentage 100.0

None == -1                         \* Python None for an optional time

Sensitivities == {"low", "medium", "high", "other"}

\* Frames fed to the scorer alone: every eye tier at its lower boundary;
\* angles of both signs inside the full range, between it and a preset's
\* threshold, on a threshold and beyond every threshold.
EarValues == {20, 35, 50, 60}
PitchValues == {-20, 0, 50}
YawValues == {-45, 0, 56}
ScorerFrames ==
    [avg_ear : EarValues, pitch : PitchValues, yaw : YawValues,
     phone_detected : BOOLEAN, hands_near_face : BOOLEAN]

\* Frames fed to a running tracker: the nominal frame (focused) and a frame
\* with squinting eyes, a phone and a hand near the face (unfocused).
TrackerFrames ==
    { [avg_ear |-> 20, pitch |-> 0, yaw |-> 0,
       phone_detected |-> FALSE, hands_near_face |-> FALSE],
      [avg_ear |-> 35, pitch |-> 0, yaw |-> 0,
       phone_detected |-> TRUE, hands_near_face |-> TRUE] }

VARIABLES
    now,                     \* time.time()
    is_tracking,
    distraction_callback,    \* TRUE when a callback is registered
    HEAD_PITCH_THRESHOLD,
    HEAD_YAW_THRESHOLD,
    DISTRACTION_TIME_LIMIT,
    FOCUS_THRESHOLD,
    last_focus_time,
    current_focus_score,
    distraction_start_time,
    session_start_time,
    focus_events,            \* the event log
    distraction_count,
    result,                  \* what the last analyze_focus_level returned
    callbacks,               \* history: callback invocations since start_tracking
    run,                     \* history: the current run of unfocused samples
    stats,                   \* what the last get_session_stats returned
    phone_detection_enabled,
    camera,                  \* "none", or the capture object: "open",
                             \* "closed" (never opened) or "released"
    camera_index,
    returned,                \* what the last initialize_camera or
                             \* process_frame returned
    open_devices,            \* history: capture devices held open
    camera_history,          \* history: "never", or what the last
                             \* initialize_camera did: "opened",
                             \* "reopened" or "failed"
    face_metrics,            \* the ears, gaze and pose of the last frame
                             \* analysed from its landmarks
    gui_thread,              \* the window: its session_active flag, and
                             \* its frame thread's position and locals
    session_active,          \* SessionManager
    paused,
    stop_timer,
    current_session,         \* None, or the id of the session (its number)
    manager_start_time,      \* SessionManager.session_start_time
    pause_start_time,
    total_pause_time,
    saved,                   \* the rows of sessions_log.csv
    timers,                  \* the timer threads: position and locals
    ui,                      \* the UI thread inside end_session
    delivered                \* history: for each session, the calls of
                             \* session_end_callback made while it was the
                             \* latest session

vars == <<now, is_tracking, distraction_callback, HEAD_PITCH_THRESHOLD,
          HEAD_YAW_THRESHOLD, DISTRACTION_TIME_LIMIT, FOCUS_THRESHOLD,
          last_focus_time, current_focus_score, distraction_start_time,
          session_start_time, focus_events, distraction_count, result,
          callbacks, run, stats, phone_detection_enabled, camera,
          camera_index, returned, open_devices, camera_history,
          face_metrics, gui_thread, session_active, paused, stop_timer,
          current_session, manager_start_time, pause_start_time,
          total_pause_time, saved, timers, ui, delivered>>

managerVars == <<session_active, paused, stop_timer, current_session,
                 manager_start_time, pause_start_time, total_pause_time,
                 saved, timers, ui, delivered>>

trackerVars == <<is_tracking, distraction_callback, HEAD_PITCH_THRESHOLD,
                 HEAD_YAW_THRESHOLD, DISTRACTION_TIME_LIMIT, FOCUS_THRESHOLD,
                 last_focus_time, current_focus_score, distraction_start_time,
                 session_start_time, focus_events, distraction_count, result,
                 callbacks, run, stats, phone_detection_enabled>>

cameraVars == <<camera, camera_index, returned, open_devices, camera_history>>

Abs(x) == IF x < 0 THEN -x ELSE x

NoRun == [start |-> None, last |-> None, calls |-> 0, ok |-> FALSE,
          hit |-> FALSE, last_call |-> None, muted |-> 0]

NoResult == [focus_score |-> 0, is_focused |-> FALSE, avg_ear |-> 0,
             pitch |-> 0, yaw |-> 0, phone_detected |-> FALSE,
             phone_confidence |-> 0,
             hands_near_face |-> FALSE, details |-> "none"]

\* get_session_stats not called yet (total_time None); total_events None
\* stands for a result without that key
NoStats == [total_time |-> None, focus_time |-> 0, distraction_time |-> 0,
            focus_percentage |-> 0, average_focus_score |-> 0,
            distraction_count |-> 0, total_events |-> None]

\* ---------------------------------------------------------- landmarks
\* The six points of an eye as calculate_ear sees them: how many there are,
\* the two vertical distances A and B and the horizontal distance C.  The
\* distances are such that the ratio is a whole number of tenths.
EarUnit == 10
EyeWidth == 2
VerticalLengths == {0, 1, 2}
EyeLandmarks ==
    {e \in [points : {5, 6}, A : VerticalLengths, B : VerticalLengths,
            C : {EyeWidth}] :
        /\ e.points = 5 => (e.A = 0 /\ e.B = 0)
        /\ e.A + e.B > 0 => (2 * e.C * EarUnit) % (e.A + e.B) = 0}

NominalEye == [points |-> 6, A |-> 1, B |-> 1, C |-> EyeWidth]

\* The landmarks of a face: its eyes, the widths of the eyes between their
\* corners and the offset of the iris from the outer corner (gaze), and how
\* cv2.solvePnP ends; a solved pose is SolvedPitch, SolvedYaw.
SolvedPitch == -20
SolvedYaw == 56
AllLandmarks ==
    [left : EyeLandmarks, right : EyeLandmarks,
     left_eye_width : {0, EyeWidth}, right_eye_width : {0, EyeWidth},
     iris_offset : {0}, solve : {"solved", "failed", "raised"}]

NominalLandmarks ==
    [left |-> NominalEye, right |-> NominalEye,
     left_eye_width |-> EyeWidth, right_eye_width |-> EyeWidth,
     iris_offset |-> 0, solve |-> "solved"]

\* the landmarks analysed: those that differ from the nominal face in the
\* eyes, or in the eye widths, or in the pose solve
Differences(l) ==
    (IF l.left # NominalEye \/ l.right # NominalEye THEN 1 ELSE 0)
    + (IF l.left_eye_width # EyeWidth \/ l.right_eye_width # EyeWidth
       THEN 1 ELSE 0)
    + (IF l.solve # "solved" THEN 1 ELSE 0)

LandmarkFrames == {l \in AllLandmarks : Differences(l) <= 1}

\* no frame analysed from landmarks yet
NoMetrics == [left_ear |-> 0, right_ear |-> 0, gaze |-> "unknown",
              pitch |-> 0, yaw |-> 0, landmarks |-> NominalLandmarks]

\* the window before a session: its session_active flag, and its frame
\* thread: position, and inside analyze_focus_level the metrics of the frame
\* and the locals focus_score, is_focused and current_time; counted and
\* called are what the tests of lines 593 and 594 found
NoGuiThread == [session_active |-> FALSE, pc |-> "none", frame |-> None,
                focus_score |-> 0, is_focused |-> FALSE,
                current_time |-> None, counted |-> FALSE, called |-> FALSE]

Sessions == 1..MaxSessions

\* the planned duration of a session (settings["study_duration"] * 60),
\* in seconds
PlannedDuration == 2

\* a timer thread not started: its position, when its sleep ends, the
\* remaining_time and session_id of the status it last read, and how its
\* call of end_session returned
NoTimer == [pc |-> "none", wake |-> 0, remaining |-> 0, session |-> None,
            returned |-> "nothing"]

\* the UI thread outside end_session, and what its last call of
\* start_session or end_session returned
NoCall == [pc |-> "idle", returned |-> "nothing"]

\* FocusTracker.__init__, but for the outcome of loading the phone detector
Constructed ==
    /\ now = 0
    /\ is_tracking = FALSE
    /\ distraction_callback = FALSE
    /\ HEAD_PITCH_THRESHOLD = 30
    /\ HEAD_YAW_THRESHOLD = 45
    /\ DISTRACTION_TIME_LIMIT = 3
    /\ FOCUS_THRESHOLD = HalfScore
    /\ last_focus_time = 0
    /\ current_focus_score = 0
    /\ distraction_start_time = None
    /\ session_start_time = None
    /\ focus_events = <<>>
    /\ distraction_count = 0
    /\ result = NoResult
    /\ callbacks = 0
    /\ run = NoRun
    /\ stats = NoStats
    /\ camera = "none"
    /\ camera_index = 0
    /\ returned = "nothing"
    /\ open_devices = 0
    /\ camera_history = "never"
    /\ face_metrics = NoMetrics
    /\ gui_thread = NoGuiThread

\* SessionManager.__init__
ManagerConstructed ==
    /\ session_active = FALSE
    /\ paused = FALSE
    /\ stop_timer = FALSE
    /\ current_session = None
    /\ manager_start_time = None
    /\ pause_start_time = None
    /\ total_pause_time = 0
    /\ saved = <<>>
    /\ timers = [t \in Sessions |-> NoTimer]
    /\ ui = NoCall
    /\ delivered = [t \in Sessions |-> 0]

\* FocusTracker.__init__ with the phone detector loaded
Init == Constructed /\ ManagerConstructed /\ phone_detection_enabled = TRUE

\* FocusTracker.__init__ with the phone detector loaded or failing to load
InitDetectors ==
    Constructed /\ ManagerConstructed /\ phone_detection_enabled \in BOOLEAN

\* ------------------------------------------------------------ the scorer
\* EyeScore with the textbook polarity (a higher ratio is a more open eye)
EyeScore_conventional(avg_ear) ==
    IF avg_ear >= EYE_CLOSED_THRESHOLD THEN EyeWeight
    ELSE IF avg_ear >= EYE_SQUINT_THRESHOLD THEN SquintScore
    ELSE IF avg_ear >= EYE_OPEN_THRESHOLD THEN PartialScore
    ELSE 0

EyeScore(avg_ear) ==
    IF avg_ear < EYE_OPEN_THRESHOLD THEN EyeWeight
    ELSE IF avg_ear < EYE_SQUINT_THRESHOLD THEN SquintScore
    ELSE IF avg_ear < EYE_CLOSED_THRESHOLD THEN PartialScore
    ELSE 0

\* PitchScoreAt with the interpolation not subtracted from 1.0
PitchScoreAt_rising(pitch, threshold) ==
    LET abs_pitch == Abs(pitch)
        remaining == threshold - PitchFullRange
    IN  IF abs_pitch <= PitchFullRange THEN PitchWeight
        ELSE IF abs_pitch <= threshold
             THEN IF remaining > 0
                  THEN (PitchWeight * (abs_pitch - PitchFullRange))
                           \div remaining
                  ELSE 0
        ELSE 0

PitchScoreAt(pitch, threshold) ==
    LET abs_pitch == Abs(pitch)
        remaining == threshold - PitchFullRange
    IN  IF abs_pitch <= PitchFullRange THEN PitchWeight
        ELSE IF abs_pitch <= threshold
             THEN IF remaining > 0
                  THEN (PitchWeight * (remaining - (abs_pitch - PitchFullRange)))
                           \div remaining
                  ELSE 0
        ELSE 0

PitchScore(pitch) == PitchScoreAt(pitch, HEAD_PITCH_THRESHOLD)

YawScore(yaw) ==
    LET abs_yaw == Abs(yaw)
        remaining == HEAD_YAW_THRESHOLD - YawFullRange
    IN  IF abs_yaw <= YawFullRange THEN YawWeight
        ELSE IF abs_yaw <= HEAD_YAW_THRESHOLD
             THEN IF remaining > 0
                  THEN (YawWeight * (remaining - (abs_yaw - YawFullRange)))
                           \div remaining
                  ELSE 0
        ELSE 0

\* BaseFocusScore from the head pose alone
BaseFocusScore_headonly(f) == PitchScore(f.pitch) + YawScore(f.yaw)

BaseFocusScore(f) == EyeScore(f.avg_ear) + PitchScore(f.pitch) + YawScore(f.yaw)

PhonePenaltyAmount(f) ==
    IF f.phone_detected
    THEN (BaseFocusScore(f) * PHONE_PENALTY) \div Hundredths ELSE 0

\* HandPenaltyAmount taken from what the phone penalty has left
HandPenaltyAmount_compounded(f) ==
    IF f.hands_near_face
    THEN ((BaseFocusScore(f) - PhonePenaltyAmount(f)) * HAND_NEAR_FACE_PENALTY)
             \div Hundredths
    ELSE 0

HandPenaltyAmount(f) ==
    IF f.hands_near_face
    THEN (BaseFocusScore(f) * HAND_NEAR_FACE_PENALTY) \div Hundredths ELSE 0

Max0(x) == IF x > 0 THEN x ELSE 0

\* FocusScore with the penalties added to the base score
FocusScore_added(f) ==
    Max0(BaseFocusScore(f) + PhonePenaltyAmount(f) + HandPenaltyAmount(f))

FocusScore(f) ==
    Max0(BaseFocusScore(f) - PhonePenaltyAmount(f) - HandPenaltyAmount(f))

\* IsFocused with a strict comparison
IsFocused_strict(focus_score) == focus_score > FOCUS_THRESHOLD

IsFocused(focus_score) == focus_score >= FOCUS_THRESHOLD

\* ------------------------------------------- the distraction state machine
\* LimitReached with a strict comparison
LimitReached_strict(current_time) ==
    current_time - distraction_start_time > DISTRACTION_TIME_LIMIT

LimitReached(current_time) ==
    current_time - distraction_start_time >= DISTRACTION_TIME_LIMIT

\* CallbackInvoked without the is_tracking test
CallbackInvoked_untracked == distraction_callback

\* CallbackInvoked without the test that a callback is registered
CallbackInvoked_unregistered == is_tracking

CallbackInvoked == distraction_callback /\ is_tracking

\* NextDistractionStart without the reset after the limit is reached
NextDistractionStart_noreset(is_focused, current_time) ==
    IF is_focused THEN None
    ELSE IF distraction_start_time = None THEN current_time
    ELSE distraction_start_time

\* NextDistractionStart restarting the clock at every unfocused sample
NextDistractionStart_restarting(is_focused, current_time) ==
    IF is_focused THEN None ELSE current_time

\* distraction_start_time after a sample
NextDistractionStart(is_focused, current_time) ==
    IF is_focused THEN None
    ELSE IF distraction_start_time = None THEN current_time
    ELSE IF LimitReached(current_time) THEN current_time
    ELSE distraction_start_time

\* History of the current run of unfocused samples after a sample: when it
\* started and was last sampled, the callbacks it has invoked and when the
\* last one was, how often the limit ran out while tracking was stopped and
\* a callback registered (muted), whether a sample fell exactly one limit
\* after its start, and (ok) whether it started in Focused and every sample of it found
\* tracking active, a callback registered and the limit it started with.
NextRun(is_focused, current_time, counted, called) ==
    IF is_focused THEN NoRun
    ELSE IF run.start = None
    THEN [start |-> current_time, last |-> current_time, calls |-> 0,
          ok |-> distraction_start_time = None /\ CallbackInvoked,
          hit |-> FALSE, last_call |-> None, muted |-> 0]
    ELSE [run EXCEPT
            !.last = current_time,
            !.calls = IF called THEN @ + 1 ELSE @,
            !.ok = @ /\ CallbackInvoked,
            !.hit = @ \/ current_time - run.start = DISTRACTION_TIME_LIMIT,
            !.last_call = IF called THEN current_time ELSE @,
            !.muted = IF counted /\ distraction_callback /\ ~is_tracking
                      THEN @ + 1 ELSE @]

Event(focus_score, is_focused) ==
    [focus_score |-> focus_score, is_focused |-> is_focused]

\* ------------------------------------------------- metrics of the face
\* calculate_ear answering a degenerate eye with a closed eye's ratio
calculate_ear_closed(eye) ==
    IF eye.points < 6 THEN EYE_CLOSED_THRESHOLD
    ELSE IF eye.A + eye.B = 0 THEN EYE_CLOSED_THRESHOLD
    ELSE (2 * eye.C * EarUnit) \div (eye.A + eye.B)

\* calculate_ear, in tenths
calculate_ear(eye) ==
    IF eye.points < 6 THEN 0
    ELSE IF eye.A + eye.B = 0 THEN 0
    ELSE (2 * eye.C * EarUnit) \div (eye.A + eye.B)

\* estimate_gaze_direction; the ratios are in hundredths
estimate_gaze_direction(l) ==
    IF l.left_eye_width = 0 \/ l.right_eye_width = 0 THEN "center"
    ELSE LET left_ratio == (l.iris_offset * Hundredths) \div l.left_eye_width
             right_ratio == (l.iris_offset * Hundredths) \div l.right_eye_width
             avg_ratio == (left_ratio + right_ratio) \div 2
         IN  IF avg_ratio < 35 THEN "left"
             ELSE IF avg_ratio > 65 THEN "right"
             ELSE "center"

\* estimate_head_pose: pitch and yaw
estimate_head_pose(l) ==
    IF l.solve = "solved" THEN [pitch |-> SolvedPitch, yaw |-> SolvedYaw]
    ELSE [pitch |-> 0, yaw |-> 0]

\* ----------------------------------------------------- the phone detector
\* detect_phone without the capability test
detect_phone_ungated(phone_in_frame) ==
    [phone_detected |-> phone_in_frame,
     phone_confidence |-> IF phone_in_frame THEN PHONE_CONFIDENCE_THRESHOLD
                          ELSE 0]

\* detect_phone on a frame in which the detector, when it is loaded and
\* runs without error, reports a phone or not (the confidence of a reported
\* phone is represented by the threshold; the boxes are not represented)
detect_phone(phone_in_frame) ==
    IF ~phone_detection_enabled
    THEN [phone_detected |-> FALSE, phone_confidence |-> 0]
    ELSE [phone_detected |-> phone_in_frame,
          phone_confidence |-> IF phone_in_frame THEN PHONE_CONFIDENCE_THRESHOLD
                               ELSE 0]

\* ------------------------------------------------------ session statistics
RECURSIVE SumScores(_)
SumScores(events) ==
    IF events = <<>> THEN 0
    ELSE Head(events).focus_score + SumScores(Tail(events))

\* SessionStats reporting every sample as distraction time
SessionStats_alldistraction ==
    IF focus_events = <<>>
    THEN [total_time |-> 0, focus_time |-> 0, distraction_time |-> 0,
          focus_percentage |-> 0, average_focus_score |-> 0,
          distraction_count |-> distraction_count, total_events |-> None]
    ELSE LET total_time == IF session_start_time # None
                           THEN now - session_start_time ELSE 0
             focus_time ==
                 Cardinality({i \in 1..Len(focus_events) :
                                 focus_events[i].is_focused})
             total_events == Len(focus_events)
         IN  [total_time |-> total_time,
              focus_time |-> focus_time,
              distraction_time |-> total_events,
              focus_percentage |-> (focus_time * FullPercentage) \div total_events,
              average_focus_score |-> SumScores(focus_events) \div total_events,
              distraction_count |-> distraction_count,
              total_events |-> total_events]

\* What get_session_stats returns.  The clock counts from the construction
\* of the tracker, so a session_start_time of 0 is a set start time.
SessionStats ==
    IF focus_events = <<>>
    THEN [total_time |-> 0, focus_time |-> 0, distraction_time |-> 0,
          focus_percentage |-> 0, average_focus_score |-> 0,
          distraction_count |-> distraction_count, total_events |-> None]
    ELSE LET total_time == IF session_start_time # None
                           THEN now - session_start_time ELSE 0
             focus_time ==
                 Cardinality({i \in 1..Len(focus_events) :
                                 focus_events[i].is_focused})
             total_events == Len(focus_events)
         IN  [total_time |-> total_time,
              focus_time |-> focus_time,
              distraction_time |-> total_events - focus_time,
              focus_percentage |-> (focus_time * FullPercentage) \div total_events,
              average_focus_score |-> SumScores(focus_events) \div total_events,
              distraction_count |-> distraction_count,
              total_events |-> total_events]

\* ------------------------------------------------------------- the camera
\* AfterRelease without the release
AfterRelease_skipped == open_devices

\* devices held open once the capture object, if any, is released
AfterRelease == IF camera = "open" THEN open_devices - 1 ELSE open_devices

\* CameraReadable testing only that a capture object exists
CameraReadable_unchecked == camera # "none"

\* process_frame goes on to read: self.camera and self.camera.isOpened()
CameraReadable == camera = "open"

CameraIndexes == 0..MaxCameraIndex
OpenOutcomes == {"opened", "failed", "raised"}

\* What camera.read() delivers: ret, whether the face mesh finds a face in
\* the frame, and the metrics of the frame.
CameraReads == [ret : BOOLEAN, face : BOOLEAN, metrics : TrackerFrames]

\* ------------------------------------------------------------- operations
Tick ==
    /\ now < MaxTime
    /\ now' = now + 1
    /\ UNCHANGED <<is_tracking, distraction_callback, HEAD_PITCH_THRESHOLD,
                   HEAD_YAW_THRESHOLD, DISTRACTION_TIME_LIMIT, FOCUS_THRESHOLD,
                   last_focus_time, current_focus_score,
                   distraction_start_time, session_start_time, focus_events,
                   distraction_count, result, callbacks, run>>
    /\ UNCHANGED <<stats, phone_detection_enabled>>
    /\ UNCHANGED cameraVars
    /\ UNCHANGED <<managerVars, gui_thread, face_metrics>>

\* set_sensitivity whose "high" branch leaves the time limit as it was
set_sensitivity_nolimit(sensitivity) ==
    /\ HEAD_PITCH_THRESHOLD' =
          CASE sensitivity = "low" -> 40
            [] sensitivity = "medium" -> 30
            [] sensitivity = "high" -> 20
            [] OTHER -> HEAD_PITCH_THRESHOLD
    /\ HEAD_YAW_THRESHOLD' =
          CASE sensitivity = "low" -> 55
            [] sensitivity = "medium" -> 45
            [] sensitivity = "high" -> 30
            [] OTHER -> HEAD_YAW_THRESHOLD
    /\ DISTRACTION_TIME_LIMIT' =
          CASE sensitivity = "low" -> 5
            [] sensitivity = "medium" -> 3
            [] OTHER -> DISTRACTION_TIME_LIMIT
    /\ run' = IF DISTRACTION_TIME_LIMIT' # DISTRACTION_TIME_LIMIT
              THEN [run EXCEPT !.ok = FALSE] ELSE run
    /\ UNCHANGED <<now, is_tracking, distraction_callback, FOCUS_THRESHOLD,
                   last_focus_time, current_focus_score,
                   distraction_start_time, session_start_time, focus_events,
                   distraction_count, result, callbacks>>
    /\ UNCHANGED <<stats, phone_detection_enabled>>
    /\ UNCHANGED cameraVars
    /\ UNCHANGED <<managerVars, gui_thread, face_metrics>>

set_sensitivity(sensitivity) ==
    /\ HEAD_PITCH_THRESHOLD' =
          CASE sensitivity = "low" -> 40
            [] sensitivity = "medium" -> 30
            [] sensitivity = "high" -> 20
            [] OTHER -> HEAD_PITCH_THRESHOLD
    /\ HEAD_YAW_THRESHOLD' =
          CASE sensitivity = "low" -> 55
            [] sensitivity = "medium" -> 45
            [] sensitivity = "high" -> 30
            [] OTHER -> HEAD_YAW_THRESHOLD
    /\ DISTRACTION_TIME_LIMIT' =
          CASE sensitivity = "low" -> 5
            [] sensitivity = "medium" -> 3
            [] sensitivity = "high" -> 2
            [] OTHER -> DISTRACTION_TIME_LIMIT
    /\ run' = IF DISTRACTION_TIME_LIMIT' # DISTRACTION_TIME_LIMIT
              THEN [run EXCEPT !.ok = FALSE] ELSE run
    /\ UNCHANGED <<now, is_tracking, distraction_callback, FOCUS_THRESHOLD,
                   last_focus_time, current_focus_score,
                   distraction_start_time, session_start_time, focus_events,
                   distraction_count, result, callbacks>>
    /\ UNCHANGED <<stats, phone_detection_enabled>>
    /\ UNCHANGED cameraVars
    /\ UNCHANGED <<managerVars, gui_thread, face_metrics>>

set_callbacks(callback) ==
    /\ distraction_callback' = callback
    /\ UNCHANGED <<now, is_tracking, HEAD_PITCH_THRESHOLD, HEAD_YAW_THRESHOLD,
                   DISTRACTION_TIME_LIMIT, FOCUS_THRESHOLD, last_focus_time,
                   current_focus_score, distraction_start_time,
                   session_start_time, focus_events, distraction_count,
                   result, callbacks, run>>
    /\ UNCHANGED <<stats, phone_detection_enabled>>
    /\ UNCHANGED cameraVars
    /\ UNCHANGED <<managerVars, gui_thread, face_metrics>>

\* start_tracking without focus_events.clear() and the counter reset
start_tracking_keeping ==
    /\ is_tracking' = TRUE
    /\ session_start_time' = now
    /\ last_focus_time' = now
    /\ UNCHANGED <<now, distraction_callback, HEAD_PITCH_THRESHOLD,
                   HEAD_YAW_THRESHOLD, DISTRACTION_TIME_LIMIT, FOCUS_THRESHOLD,
                   current_focus_score, distraction_start_time, result, run,
                   focus_events, distraction_count, callbacks>>
    /\ UNCHANGED <<stats, phone_detection_enabled>>
    /\ UNCHANGED cameraVars
    /\ UNCHANGED <<managerVars, gui_thread, face_metrics>>

\* what start_tracking does to the tracker
StartTracking ==
    /\ is_tracking' = TRUE
    /\ session_start_time' = now
    /\ focus_events' = <<>>
    /\ distraction_count' = 0
    /\ last_focus_time' = now
    /\ callbacks' = 0
    /\ UNCHANGED <<now, distraction_callback, HEAD_PITCH_THRESHOLD,
                   HEAD_YAW_THRESHOLD, DISTRACTION_TIME_LIMIT, FOCUS_THRESHOLD,
                   current_focus_score, distraction_start_time, result, run>>
    /\ UNCHANGED <<stats, phone_detection_enabled>>
    /\ UNCHANGED cameraVars

start_tracking ==
    /\ StartTracking
    /\ UNCHANGED <<managerVars, gui_thread, face_metrics>>

\* stop_tracking that also discards the session
stop_tracking_discarding ==
    /\ is_tracking' = FALSE
    /\ focus_events' = <<>>
    /\ UNCHANGED <<now, distraction_callback, HEAD_PITCH_THRESHOLD,
                   HEAD_YAW_THRESHOLD, DISTRACTION_TIME_LIMIT, FOCUS_THRESHOLD,
                   last_focus_time, current_focus_score,
                   distraction_start_time, session_start_time,
                   distraction_count, result, callbacks, run>>
    /\ UNCHANGED <<stats, phone_detection_enabled>>
    /\ UNCHANGED cameraVars
    /\ UNCHANGED <<managerVars, gui_thread, face_metrics>>

\* what stop_tracking does to the tracker
StopTracking ==
    /\ is_tracking' = FALSE
    /\ UNCHANGED <<now, distraction_callback, HEAD_PITCH_THRESHOLD,
                   HEAD_YAW_THRESHOLD, DISTRACTION_TIME_LIMIT, FOCUS_THRESHOLD,
                   last_focus_time, current_focus_score,
                   distraction_start_time, session_start_time, focus_events,
                   distraction_count, result, callbacks, run>>
    /\ UNCHANGED <<stats, phone_detection_enabled>>
    /\ UNCHANGED cameraVars

stop_tracking ==
    /\ StopTracking
    /\ UNCHANGED <<managerVars, gui_thread, face_metrics>>

\* cleanup: releases the capture object if there is one, closes the hand
\* detector and stops tracking; a closed hand detector only makes
\* detect_hands_near_face report no hands, which every frame may report
\* anyway.
cleanup ==
    /\ camera' = IF camera = "none" THEN "none" ELSE "released"
    /\ open_devices' = AfterRelease
    /\ is_tracking' = FALSE
    /\ UNCHANGED <<now, distraction_callback, HEAD_PITCH_THRESHOLD,
                   HEAD_YAW_THRESHOLD, DISTRACTION_TIME_LIMIT, FOCUS_THRESHOLD,
                   last_focus_time, current_focus_score,
                   distraction_start_time, session_start_time, focus_events,
                   distraction_count, result, callbacks, run>>
    /\ UNCHANGED <<stats, phone_detection_enabled, camera_index, returned,
                   camera_history>>
    /\ UNCHANGED <<managerVars, gui_thread, face_metrics>>

\* analyze_focus_level(None)
AnalyzeNoFrame ==
    /\ result' = [NoResult EXCEPT !.details = "No frame"]
    /\ UNCHANGED <<now, is_tracking, distraction_callback,
                   HEAD_PITCH_THRESHOLD, HEAD_YAW_THRESHOLD,
                   DISTRACTION_TIME_LIMIT, FOCUS_THRESHOLD, last_focus_time,
                   current_focus_score, distraction_start_time,
                   session_start_time, focus_events, distraction_count,
                   callbacks, run>>
    /\ UNCHANGED <<stats, phone_detection_enabled>>
    /\ UNCHANGED cameraVars
    /\ UNCHANGED <<managerVars, gui_thread, face_metrics>>

\* NoFaceAnalysis returning the defaults of the no-frame result
NoFaceAnalysis_defaults(phone_in_frame, hands_near_face) ==
    /\ result' = [NoResult EXCEPT !.details = "No face detected"]
    /\ UNCHANGED <<now, is_tracking, distraction_callback,
                   HEAD_PITCH_THRESHOLD, HEAD_YAW_THRESHOLD,
                   DISTRACTION_TIME_LIMIT, FOCUS_THRESHOLD, last_focus_time,
                   current_focus_score, distraction_start_time,
                   session_start_time, focus_events, distraction_count,
                   callbacks, run>>
    /\ UNCHANGED <<stats, phone_detection_enabled>>

\* what analyze_focus_level does with a frame in which the face mesh finds
\* no face
NoFaceAnalysis(phone_in_frame, hands_near_face) ==
    /\ result' = [NoResult EXCEPT
                    !.phone_detected = detect_phone(phone_in_frame).phone_detected,
                    !.phone_confidence = detect_phone(phone_in_frame).phone_confidence,
                    !.hands_near_face = hands_near_face,
                    !.details = "No face detected"]
    /\ UNCHANGED <<now, is_tracking, distraction_callback,
                   HEAD_PITCH_THRESHOLD, HEAD_YAW_THRESHOLD,
                   DISTRACTION_TIME_LIMIT, FOCUS_THRESHOLD, last_focus_time,
                   current_focus_score, distraction_start_time,
                   session_start_time, focus_events, distraction_count,
                   callbacks, run>>
    /\ UNCHANGED <<stats, phone_detection_enabled>>

\* analyze_focus_level(frame), the face mesh finds no face
AnalyzeNoFace(phone_in_frame, hands_near_face) ==
    /\ NoFaceAnalysis(phone_in_frame, hands_near_face)
    /\ UNCHANGED cameraVars
    /\ UNCHANGED <<managerVars, gui_thread, face_metrics>>

\* what analyze_focus_level does with a frame in which the face mesh finds
\* a face with metrics frame (its phone_detected is what the phone detector
\* would report when it is loaded)
FaceAnalysis(frame) ==
    LET phone == detect_phone(frame.phone_detected)
        f == [frame EXCEPT !.phone_detected = phone.phone_detected]
        focus_score == FocusScore(f)
        is_focused == IsFocused(focus_score)
        current_time == now
        counted == /\ ~is_focused
                   /\ distraction_start_time # None
                   /\ LimitReached(current_time)
        called == counted /\ CallbackInvoked
    IN  /\ is_tracking => Len(focus_events) < MaxEvents
        /\ last_focus_time' = IF is_focused THEN current_time
                              ELSE last_focus_time
        /\ distraction_start_time' = NextDistractionStart(is_focused, current_time)
        /\ distraction_count' = IF counted THEN distraction_count + 1
                                ELSE distraction_count
        /\ callbacks' = IF called THEN callbacks + 1 ELSE callbacks
        /\ run' = NextRun(is_focused, current_time, counted, called)
        /\ current_focus_score' = focus_score
        /\ focus_events' = IF is_tracking
                           THEN Append(focus_events, Event(focus_score, is_focused))
                           ELSE focus_events
        /\ result' = [focus_score |-> focus_score, is_focused |-> is_focused,
                      avg_ear |-> f.avg_ear, pitch |-> f.pitch, yaw |-> f.yaw,
                      phone_detected |-> f.phone_detected,
                      phone_confidence |-> phone.phone_confidence,
                      hands_near_face |-> f.hands_near_face,
                      details |-> "metrics"]
        /\ UNCHANGED <<now, is_tracking, distraction_callback,
                       HEAD_PITCH_THRESHOLD, HEAD_YAW_THRESHOLD,
                       DISTRACTION_TIME_LIMIT, FOCUS_THRESHOLD,
                       session_start_time>>
        /\ UNCHANGED <<stats, phone_detection_enabled>>

\* analyze_focus_level(frame), the face mesh finds a face with metrics f
AnalyzeFace(f) ==
    /\ FaceAnalysis(f)
    /\ UNCHANGED cameraVars
    /\ UNCHANGED <<managerVars, gui_thread, face_metrics>>

\* analyze_focus_level(frame), the face mesh finds a face with landmarks l
\* and the detectors report neither a phone nor hands
AnalyzeLandmarks(l) ==
    LET left_ear == calculate_ear(l.left)
        right_ear == calculate_ear(l.right)
        pose == estimate_head_pose(l)
    IN  /\ face_metrics' = [left_ear |-> left_ear, right_ear |-> right_ear,
                            gaze |-> estimate_gaze_direction(l),
                            pitch |-> pose.pitch, yaw |-> pose.yaw,
                            landmarks |-> l]
        /\ FaceAnalysis([avg_ear |-> (left_ear + right_ear) \div 2,
                         pitch |-> pose.pitch, yaw |-> pose.yaw,
                         phone_detected |-> FALSE,
                         hands_near_face |-> FALSE])
        /\ UNCHANGED cameraVars
        /\ UNCHANGED <<managerVars, gui_thread>>

get_session_stats ==
    /\ stats' = SessionStats
    /\ UNCHANGED <<now, is_tracking, distraction_callback,
                   HEAD_PITCH_THRESHOLD, HEAD_YAW_THRESHOLD,
                   DISTRACTION_TIME_LIMIT, FOCUS_THRESHOLD, last_focus_time,
                   current_focus_score, distraction_start_time,
                   session_start_time, focus_events, distraction_count,
                   result, callbacks, run, phone_detection_enabled>>
    /\ UNCHANGED cameraVars
    /\ UNCHANGED <<managerVars, gui_thread, face_metrics>>

\* initialize_camera(index): cv2.VideoCapture(index) gives a capture object
\* that is opened ("opened") or is not ("failed"), or raises ("raised")
initialize_camera(index, outcome) ==
    /\ camera' = CASE outcome = "opened" -> "open"
                   [] outcome = "failed" -> "closed"
                   [] OTHER -> IF camera = "none" THEN "none" ELSE "released"
    /\ open_devices' = IF outcome = "opened" THEN AfterRelease + 1
                       ELSE AfterRelease
    /\ camera_index' = IF outcome = "raised" THEN camera_index ELSE index
    /\ returned' = IF outcome = "opened" THEN "True" ELSE "False"
    /\ camera_history' = CASE outcome # "opened" -> "failed"
                           [] camera = "open" -> "reopened"
                           [] OTHER -> "opened"
    /\ UNCHANGED <<now, is_tracking, distraction_callback,
                   HEAD_PITCH_THRESHOLD, HEAD_YAW_THRESHOLD,
                   DISTRACTION_TIME_LIMIT, FOCUS_THRESHOLD, last_focus_time,
                   current_focus_score, distraction_start_time,
                   session_start_time, focus_events, distraction_count,
                   result, callbacks, run, stats, phone_detection_enabled>>
    /\ UNCHANGED <<managerVars, gui_thread, face_metrics>>

\* process_frame when camera.read(), if it comes to it, delivers read
process_frame(read) ==
    IF ~CameraReadable \/ ~read.ret
    THEN /\ returned' = "None"
         /\ UNCHANGED <<now, is_tracking, distraction_callback,
                        HEAD_PITCH_THRESHOLD, HEAD_YAW_THRESHOLD,
                        DISTRACTION_TIME_LIMIT, FOCUS_THRESHOLD,
                        last_focus_time, current_focus_score,
                        distraction_start_time, session_start_time,
                        focus_events, distraction_count, result, callbacks,
                        run, stats, phone_detection_enabled, camera,
                        camera_index, open_devices, camera_history>>
         /\ UNCHANGED <<managerVars, gui_thread, face_metrics>>
    ELSE /\ IF read.face
            THEN FaceAnalysis(read.metrics)
            ELSE NoFaceAnalysis(read.metrics.phone_detected,
                                read.metrics.hands_near_face)
         /\ returned' = "frame"
         /\ UNCHANGED <<camera, camera_index, open_devices, camera_history>>
         /\ UNCHANGED <<managerVars, gui_thread, face_metrics>>

\* ------------------------------------------------------- SessionManager
\* The callbacks are those the window registers (setup_callbacks):
\* session_end_callback calls end_session, session_update_callback shows
\* the status.
otherVars == <<now, trackerVars, cameraVars, face_metrics, gui_thread>>

\* the sessions started so far; session ids are their numbers
SessionsStarted == Cardinality({t \in Sessions : timers[t].pc # "none"})

\* get_session_status: an inactive status has neither elapsed_time nor
\* remaining_time (the timer loop reads remaining_time with default 0)
SessionStatus ==
    IF ~session_active \/ current_session = None
    THEN [active |-> FALSE, session_id |-> None, elapsed_time |-> None,
          remaining_time |-> 0, paused |-> FALSE]
    ELSE LET elapsed_time == now - manager_start_time - total_pause_time
         IN  [active |-> TRUE, session_id |-> current_session,
              elapsed_time |-> elapsed_time,
              remaining_time |-> Max0(PlannedDuration - elapsed_time),
              paused |-> paused]

\* what start_session, with start_timer_thread, does to the manager
StartSession ==
    IF session_active
    THEN /\ ui' = [ui EXCEPT !.returned = "False"]
         /\ UNCHANGED <<session_active, paused, stop_timer, current_session,
                        manager_start_time, pause_start_time,
                        total_pause_time, saved, timers, delivered>>
    ELSE /\ SessionsStarted < MaxSessions
         /\ current_session' = SessionsStarted + 1
         /\ session_active' = TRUE
         /\ manager_start_time' = now
         /\ total_pause_time' = 0
         /\ stop_timer' = FALSE
         /\ timers' = [timers EXCEPT ![SessionsStarted + 1] =
                           [NoTimer EXCEPT !.pc = "test"]]
         /\ ui' = [ui EXCEPT !.returned = "True"]
         /\ UNCHANGED <<paused, pause_start_time, saved, delivered>>

start_session ==
    /\ StartSession
    /\ UNCHANGED otherVars

pause_session ==
    /\ IF session_active /\ ~paused
       THEN paused' = TRUE /\ pause_start_time' = now
       ELSE UNCHANGED <<paused, pause_start_time>>
    /\ UNCHANGED <<session_active, stop_timer, current_session,
                   manager_start_time, total_pause_time, saved, timers, ui,
                   delivered>>
    /\ UNCHANGED otherVars

resume_session ==
    /\ IF session_active /\ paused
       THEN /\ paused' = FALSE
            /\ total_pause_time' = total_pause_time + (now - pause_start_time)
            /\ pause_start_time' = None
       ELSE UNCHANGED <<paused, total_pause_time, pause_start_time>>
    /\ UNCHANGED <<session_active, stop_timer, current_session,
                   manager_start_time, saved, timers, ui, delivered>>
    /\ UNCHANGED otherVars

\* the row save_session writes for the current session
SessionRow ==
    [id |-> current_session,
     duration_actual |-> now - manager_start_time - total_pause_time,
     paused_time |-> total_pause_time]

\* what end_session, called and run to its end by the UI thread, does to
\* the manager
EndSession ==
    /\ ui.pc = "idle"
    /\ IF ~session_active \/ current_session = None
       THEN /\ ui' = [ui EXCEPT !.returned = "empty"]
            /\ UNCHANGED <<session_active, stop_timer, current_session,
                           manager_start_time, saved>>
       ELSE /\ session_active' = FALSE
            /\ stop_timer' = TRUE
            /\ saved' = Append(saved, SessionRow)
            /\ current_session' = None
            /\ manager_start_time' = None
            /\ ui' = [ui EXCEPT !.returned = "data"]
    /\ UNCHANGED <<paused, pause_start_time, total_pause_time, timers,
                   delivered>>

end_session ==
    /\ EndSession
    /\ UNCHANGED otherVars

\* end_session step by step.  The caller c is the UI thread (0) or the
\* timer thread t, inside session_end_callback.
UiThread == 0
Callers == {UiThread} \cup Sessions

CallerAt(c) == IF c = UiThread THEN ui.pc ELSE timers[c].pc

\* the caller moves on to position pc, or returns with outcome returned
CallerMoves(c, pc, outcome) ==
    IF c = UiThread
    THEN /\ ui' = [pc |-> IF pc = "out" THEN "idle" ELSE pc,
                   returned |-> outcome]
         /\ UNCHANGED timers
    ELSE /\ timers' = [timers EXCEPT
                          ![c].pc = IF pc = "out" THEN "done" ELSE pc,
                          ![c].returned = outcome]
         /\ UNCHANGED ui

\* line 151
end_session_check(c) ==
    /\ CallerAt(c) = IF c = UiThread THEN "idle" ELSE "end_check"
    /\ IF ~session_active \/ current_session = None
       THEN CallerMoves(c, "out", "empty")
       ELSE CallerMoves(c, "end_save", "nothing")
    /\ UNCHANGED <<session_active, paused, stop_timer, current_session,
                   manager_start_time, pause_start_time, total_pause_time,
                   saved, delivered>>
    /\ UNCHANGED otherVars

\* lines 154-169: the flags, the duration (which raises when
\* session_start_time or current_session is None by now), the save
end_session_save(c) ==
    /\ CallerAt(c) = "end_save"
    /\ session_active' = FALSE
    /\ stop_timer' = TRUE
    /\ IF manager_start_time = None \/ current_session = None
       THEN /\ CallerMoves(c, "out", "raised")
            /\ UNCHANGED saved
       ELSE /\ CallerMoves(c, "end_reset", "nothing")
            /\ saved' = Append(saved, SessionRow)
    /\ UNCHANGED <<paused, current_session, manager_start_time,
                   pause_start_time, total_pause_time, delivered>>
    /\ UNCHANGED otherVars

\* lines 172-177
end_session_reset(c) ==
    /\ CallerAt(c) = "end_reset"
    /\ current_session' = None
    /\ manager_start_time' = None
    /\ CallerMoves(c, "out", "data")
    /\ UNCHANGED <<session_active, paused, stop_timer, pause_start_time,
                   total_pause_time, saved, delivered>>
    /\ UNCHANGED otherVars

\* timer_loop, line 250: the loop test, then time.sleep(1)
TimerTest(t) ==
    /\ timers[t].pc = "test"
    /\ timers' = [timers EXCEPT
                     ![t].pc = IF ~stop_timer /\ session_active
                               THEN "sleep" ELSE "done",
                     ![t].wake = IF ~stop_timer /\ session_active
                                 THEN now + 1 ELSE 0]
    /\ UNCHANGED <<session_active, paused, stop_timer, current_session,
                   manager_start_time, pause_start_time, total_pause_time,
                   saved, ui, delivered>>
    /\ UNCHANGED otherVars

\* lines 253-256: the sleep is over; continue if paused, else read the status
TimerWake(t) ==
    /\ timers[t].pc = "sleep"
    /\ now >= timers[t].wake
    /\ timers' = [timers EXCEPT
                     ![t].pc = IF paused THEN "test" ELSE "status",
                     ![t].wake = 0,
                     ![t].remaining = IF paused THEN @
                                      ELSE SessionStatus.remaining_time,
                     ![t].session = IF paused THEN @
                                    ELSE SessionStatus.session_id]
    /\ UNCHANGED <<session_active, paused, stop_timer, current_session,
                   manager_start_time, pause_start_time, total_pause_time,
                   saved, ui, delivered>>
    /\ UNCHANGED otherVars

\* lines 259-266: time is up, call session_end_callback (which calls
\* end_session) and leave the loop; or call session_update_callback
TimerReport(t) ==
    /\ timers[t].pc = "status"
    /\ IF timers[t].remaining <= 0
       THEN /\ timers' = [timers EXCEPT ![t].pc = "end_check",
                                        ![t].remaining = 0,
                                        ![t].session = None]
            /\ delivered' = [delivered EXCEPT ![SessionsStarted] = @ + 1]
       ELSE /\ timers' = [timers EXCEPT ![t].pc = "test",
                                        ![t].remaining = 0,
                                        ![t].session = None]
            /\ UNCHANGED delivered
    /\ UNCHANGED <<session_active, paused, stop_timer, current_session,
                   manager_start_time, pause_start_time, total_pause_time,
                   saved, ui>>
    /\ UNCHANGED otherVars

\* a step of timer thread t, end_session inside its callback included
TimerStep(t) ==
    \/ TimerTest(t)
    \/ TimerWake(t)
    \/ TimerReport(t)
    \/ end_session_check(t)
    \/ end_session_save(t)
    \/ end_session_reset(t)

\* ---------------------------------------------------------- specifications
\* A tracker driven through sessions while the clock runs.
Next ==
    \/ Tick
    \/ \E s \in Sensitivities : set_sensitivity(s)
    \/ \E c \in BOOLEAN : set_callbacks(c)
    \/ start_tracking
    \/ stop_tracking
    \/ cleanup
    \/ \E f \in TrackerFrames : AnalyzeFace(f)

Spec == Init /\ [][Next]_vars

\* analyze_focus_level applied to every kind of frame under every preset,
\* outside a tracking session and with the clock standing still.
NextScore ==
    \/ \E s \in Sensitivities : set_sensitivity(s)
    \/ AnalyzeNoFrame
    \/ \E p, h \in BOOLEAN : AnalyzeNoFace(p, h)
    \/ \E f \in ScorerFrames : AnalyzeFace(f)

SpecScore == Init /\ [][NextScore]_vars

\* Sessions whose statistics are read at any moment.
NextStats ==
    \/ Tick
    \/ start_tracking
    \/ stop_tracking
    \/ \E f \in TrackerFrames : AnalyzeFace(f)
    \/ get_session_stats

SpecStats == Init /\ [][NextStats]_vars

\* Sessions fed frames of every kind: none, without a face, with a face.
NextFrames ==
    \/ Tick
    \/ \E c \in BOOLEAN : set_callbacks(c)
    \/ start_tracking
    \/ stop_tracking
    \/ AnalyzeNoFrame
    \/ \E p, h \in BOOLEAN : AnalyzeNoFace(p, h)
    \/ \E f \in TrackerFrames : AnalyzeFace(f)

SpecFrames == Init /\ [][NextFrames]_vars

\* The camera opened, re-opened, read and released around a session.
NextCamera ==
    \/ \E i \in CameraIndexes, o \in OpenOutcomes : initialize_camera(i, o)
    \/ start_tracking
    \/ \E r \in CameraReads : process_frame(r)
    \/ cleanup

SpecCamera == Init /\ [][NextCamera]_vars

\* The scorer with the phone detector loaded or not.
NextDetectors ==
    \/ \E p, h \in BOOLEAN : AnalyzeNoFace(p, h)
    \/ \E f \in ScorerFrames : AnalyzeFace(f)

SpecDetectors == InitDetectors /\ [][NextDetectors]_vars

\* Sessions fed faces whose landmarks are degenerate in one way or another.
NextLandmarks ==
    \/ start_tracking
    \/ \E l \in LandmarkFrames : AnalyzeLandmarks(l)

SpecLandmarks == Init /\ [][NextLandmarks]_vars

\* A SessionManager driven from the UI thread, whose calls run to their
\* end, while its timer threads run.
NextManager ==
    \/ Tick
    \/ start_session
    \/ pause_session
    \/ resume_session
    \/ end_session
    \/ \E t \in Sessions : TimerStep(t)

SpecManager == Init /\ [][NextManager]_vars

\* end_session called from the UI thread and from the timer threads, step
\* by step.
NextEnding ==
    \/ Tick
    \/ start_session
    \/ end_session_check(UiThread)
    \/ end_session_save(UiThread)
    \/ end_session_reset(UiThread)
    \/ \E t \in Sessions : TimerStep(t)

SpecEnding == Init /\ [][NextEnding]_vars

\* ======================================================= the debounce
RunSpan == run.last - run.start

\* C1 as stated: with tracking active and a callback registered, a run of
\* unfocused samples that starts in Focused and spans exactly
\* DISTRACTION_TIME_LIMIT seconds invokes the callback exactly once, and a
\* run that spans exactly twice the limit invokes it exactly twice.
C1_AsStated ==
    (run.start # None /\ run.ok) =>
        /\ RunSpan = DISTRACTION_TIME_LIMIT => run.calls = 1
        /\ RunSpan = 2 * DISTRACTION_TIME_LIMIT => run.calls = 2

\* C1 amended: such a run of samples with a detected face invokes the
\* callback exactly once when it spans exactly the limit; when it spans
\* exactly twice the limit it invokes the callback exactly twice if one of
\* its samples was taken exactly one limit after the first, and exactly
\* once otherwise (the limit is counted again from the sample that fired).
C1_Debounce ==
    (run.start # None /\ run.ok) =>
        /\ RunSpan = DISTRACTION_TIME_LIMIT => run.calls = 1
        /\ RunSpan = 2 * DISTRACTION_TIME_LIMIT =>
               run.calls = IF run.hit THEN 2 ELSE 1

C1_Witness ==
    /\ run.start # None /\ run.ok
    /\ RunSpan = 2 * DISTRACTION_TIME_LIMIT
    /\ run.hit /\ run.calls = 2

\* C2: in every execution the callback is invoked only by an unfocused
\* sample that ends an uninterrupted run of unfocused samples lasting at
\* least DISTRACTION_TIME_LIMIT seconds, and at least DISTRACTION_TIME_LIMIT
\* seconds after the previous invocation of the same run.
C2_CallbackSpacing ==
    [][callbacks' > callbacks =>
          /\ result'.details = "metrics" /\ ~result'.is_focused
          /\ run.start # None
          /\ now - run.start >= DISTRACTION_TIME_LIMIT
          /\ run.last_call # None =>
                 now - run.last_call >= DISTRACTION_TIME_LIMIT]_vars

C2_Witness == run.calls = 2 /\ ~run.hit /\ callbacks = 2

\* C3: while tracking is stopped (after stop_tracking or cleanup, before the
\* next start_tracking) no step invokes the distraction callback and none
\* appends to the event log, however long the unfocused run lasts.
C3_StoppedIsSilent ==
    [][(~is_tracking /\ ~is_tracking') =>
          (callbacks' = callbacks /\ focus_events' = focus_events)]_vars

C3_Witness ==
    /\ ~is_tracking /\ distraction_callback
    /\ run.muted > 0
    /\ focus_events # <<>>

\* C4 as stated: start_tracking leaves distraction_start_time empty, and the
\* first sample of the new session neither invokes the callback nor
\* increments distraction_count.
C4_StartResetsMachine ==
    [][/\ start_tracking => distraction_start_time' = None
       /\ (is_tracking /\ focus_events = <<>> /\ focus_events' # <<>>) =>
              (callbacks' = callbacks /\ distraction_count' = distraction_count)
      ]_vars

\* ========================================================== the scorer
Scored == result.details = "metrics"

\* C5: the focus_score that analyze_focus_level returns, keeps in
\* current_focus_score and logs lies in [0, 1] for every frame and every
\* sensitivity preset, also when both penalties apply.
C5_ScoreInUnitRange ==
    /\ result.focus_score >= 0 /\ result.focus_score <= ScoreOne
    /\ current_focus_score >= 0 /\ current_focus_score <= ScoreOne
    /\ \A i \in 1..Len(focus_events) :
          focus_events[i].focus_score >= 0 /\ focus_events[i].focus_score <= ScoreOne

C5_Witness ==
    /\ Scored /\ result.phone_detected /\ result.hands_near_face
    /\ result.focus_score > 0 /\ result.focus_score < HalfScore
    /\ HEAD_PITCH_THRESHOLD = 40

\* C6: every scored frame returns base minus 0.3 of base when a phone is
\* detected minus 0.15 of base when hands are near the face: 0.55 of base
\* with both, 0.7 with the phone only, 0.85 with hands only, base with
\* neither.
C6_AdditivePenalties ==
    [][LET f == [avg_ear |-> result'.avg_ear, pitch |-> result'.pitch,
                 yaw |-> result'.yaw,
                 phone_detected |-> result'.phone_detected,
                 hands_near_face |-> result'.hands_near_face]
           base == EyeScore(f.avg_ear) + PitchScore(f.pitch) + YawScore(f.yaw)
       IN  (result'.details = "metrics" /\ AnalyzeFace(f)) =>
              result'.focus_score * 100 =
                 CASE f.phone_detected /\ f.hands_near_face -> 55 * base
                   [] f.phone_detected /\ ~f.hands_near_face -> 70 * base
                   [] ~f.phone_detected /\ f.hands_near_face -> 85 * base
                   [] OTHER -> 100 * base]_vars

C6_Witness ==
    /\ Scored /\ result.phone_detected /\ result.hands_near_face
    /\ result.avg_ear = 20 /\ result.pitch = 0 /\ result.yaw = 0
    /\ result.focus_score * 100 = 55 * ScoreOne

\* C7: for every frame with a detected face is_focused is true exactly when
\* focus_score >= 0.5, and no set_sensitivity moves that cutoff.
C7_FixedCutoff ==
    /\ FOCUS_THRESHOLD = HalfScore
    /\ Scored => (result.is_focused <=> result.focus_score >= HalfScore)

C7_Witness ==
    /\ Scored /\ result.focus_score = HalfScore /\ result.is_focused
    /\ HEAD_YAW_THRESHOLD = 30

\* C8: pitch 0, yaw 0, avg_ear below the open threshold, no phone and no
\* hands give focus_score 1.0 and is_focused, under every preset.
C8_Nominal ==
    ( /\ Scored
      /\ result.pitch = 0 /\ result.yaw = 0
      /\ result.avg_ear < EYE_OPEN_THRESHOLD
      /\ ~result.phone_detected /\ ~result.hands_near_face )
    => (result.focus_score = ScoreOne /\ result.is_focused)

C8_Witness ==
    /\ Scored /\ result.pitch = 0 /\ result.yaw = 0 /\ result.avg_ear = 20
    /\ ~result.phone_detected /\ ~result.hands_near_face
    /\ result.focus_score = ScoreOne
    /\ HEAD_PITCH_THRESHOLD = 20

\* C9: eyes classified closed (avg_ear >= 6.0), pitch 0, yaw 0, no phone and
\* no hands give focus_score 0.8 and is_focused.
C9_ClosedEyes ==
    ( /\ Scored
      /\ result.pitch = 0 /\ result.yaw = 0
      /\ result.avg_ear >= EYE_CLOSED_THRESHOLD
      /\ ~result.phone_detected /\ ~result.hands_near_face )
    => (result.focus_score = PitchWeight + YawWeight /\ result.is_focused)

C9_Witness ==
    /\ Scored /\ result.pitch = 0 /\ result.yaw = 0 /\ result.avg_ear = 60
    /\ ~result.phone_detected /\ ~result.hands_near_face
    /\ result.focus_score * 10 = 8 * ScoreOne

\* C10: under every preset the pitch contribution never grows with |pitch|:
\* it is 0.4 up to 15 degrees, falls linearly to 0 at HEAD_PITCH_THRESHOLD
\* and is 0 beyond, so a frame with pitch 50 scores at most 0.6.
PitchAngles == (0 - MaxPitch)..MaxPitch

C11_EmptyLogAllZero ==
    [][(focus_events = <<>> /\ get_session_stats) =>
          /\ stats'.total_time = 0
          /\ stats'.focus_time = 0
          /\ stats'.distraction_time = 0
          /\ stats'.focus_percentage = 0
          /\ stats'.average_focus_score = 0
          /\ stats'.distraction_count = 0]_vars

\* C12: start_tracking, from any state, leaves the tracker active with an
\* empty log, distraction_count 0 and session_start_time the current time,
\* so that get_session_stats would return zero in every field; and while a
\* session is active every distraction counted has its sample in the log of
\* that session.
C12_StartTracking ==
    [][/\ start_tracking =>
            /\ is_tracking'
            /\ focus_events' = <<>>
            /\ distraction_count' = 0
            /\ session_start_time' = now
            /\ SessionStats'.total_time = 0
            /\ SessionStats'.focus_time = 0
            /\ SessionStats'.distraction_time = 0
            /\ SessionStats'.focus_percentage = 0
            /\ SessionStats'.average_focus_score = 0
            /\ SessionStats'.distraction_count = 0
       /\ is_tracking' => distraction_count' <= Len(focus_events')]_vars

\* a session was read with samples and a count, and a new one has started
C12_Witness ==
    /\ is_tracking /\ focus_events = <<>> /\ distraction_count = 0
    /\ session_start_time = now /\ now > 0
    /\ stats.total_events # None /\ stats.total_events > 0
    /\ stats.distraction_count > 0

\* C13: a step that makes an active tracker inactive leaves the log,
\* distraction_count, session_start_time, the thresholds and the
\* distraction state as they were, and get_session_stats would return after
\* it what it would have returned before it.
C13_StopKeepsSession ==
    [][(is_tracking /\ ~is_tracking') =>
          /\ focus_events' = focus_events
          /\ distraction_count' = distraction_count
          /\ session_start_time' = session_start_time
          /\ HEAD_PITCH_THRESHOLD' = HEAD_PITCH_THRESHOLD
          /\ HEAD_YAW_THRESHOLD' = HEAD_YAW_THRESHOLD
          /\ DISTRACTION_TIME_LIMIT' = DISTRACTION_TIME_LIMIT
          /\ FOCUS_THRESHOLD' = FOCUS_THRESHOLD
          /\ distraction_start_time' = distraction_start_time
          /\ last_focus_time' = last_focus_time
          /\ SessionStats' = SessionStats]_vars

\* a stopped session with samples and a count whose statistics were read
C13_Witness ==
    /\ ~is_tracking /\ focus_events # <<>> /\ distraction_count > 0
    /\ distraction_start_time # None
    /\ stats = SessionStats

\* ============================================================ the event log
\* a step of analyze_focus_level on a frame that is not None
AnalyzesFrame ==
    \/ \E p, h \in BOOLEAN : AnalyzeNoFace(p, h)
    \/ \E f \in TrackerFrames : AnalyzeFace(f)

\* C14 as stated: while tracking is active every analyze_focus_level call on
\* a non-null frame appends exactly one sample to the log, and the samples
\* already in the log stay as they are in every step but start_tracking.
C14_OneSamplePerFrame ==
    [][/\ (is_tracking /\ AnalyzesFrame) =>
              Len(focus_events') = Len(focus_events) + 1
       /\ ~start_tracking =>
              /\ Len(focus_events') >= Len(focus_events)
              /\ SubSeq(focus_events', 1, Len(focus_events)) = focus_events]_vars

\* ======================================================= frames without a face
\* C15: a result with details "No face detected" has focus_score 0,
\* is_focused false and pitch = yaw = 0 and is not the no-frame result, whose
\* details are "No frame"; analyze_focus_level on a frame without a face
\* returns such a result carrying what detect_phone and
\* detect_hands_near_face reported for the frame, and touches neither the
\* log nor the distraction state.
C15_NoFaceResult ==
    [][/\ result'.details = "No face detected" =>
              /\ result'.focus_score = 0
              /\ ~result'.is_focused
              /\ result'.pitch = 0 /\ result'.yaw = 0
              /\ result'.avg_ear = 0
              /\ result' # [NoResult EXCEPT !.details = "No frame"]
       /\ \A p, h \in BOOLEAN :
              AnalyzeNoFace(p, h) =>
                  /\ result'.details = "No face detected"
                  /\ result'.phone_detected = detect_phone(p).phone_detected
                  /\ result'.phone_confidence = detect_phone(p).phone_confidence
                  /\ result'.hands_near_face = h
                  /\ focus_events' = focus_events
                  /\ distraction_start_time' = distraction_start_time]_vars

\* a no-face result that carries a detected phone and hands near the face
C15_Witness ==
    /\ result.details = "No face detected"
    /\ result.phone_detected /\ result.hands_near_face
    /\ result.phone_confidence = PHONE_CONFIDENCE_THRESHOLD
    /\ result.focus_score = 0 /\ ~result.is_focused

\* ================================================================ the camera
\* C16: process_frame returns None, and changes nothing, when there is no
\* capture object, when the capture object is not opened (initialize_camera
\* returned False, or cleanup released it), when the read fails, and
\* whenever the last initialize_camera returned False; it returns a frame
\* only from an opened camera whose read succeeded.
C16_NoCameraNoFrame ==
    [][\A r \in CameraReads :
          process_frame(r) =>
              /\ (\/ camera \in {"none", "closed", "released"}
                  \/ camera_history = "failed"
                  \/ ~r.ret)
                 => /\ returned' = "None"
                    /\ result' = result
                    /\ focus_events' = focus_events
                    /\ distraction_start_time' = distraction_start_time
              /\ returned' = "frame" =>
                    /\ camera = "open" /\ r.ret
                    /\ camera_history \in {"opened", "reopened"}]_vars

\* process_frame returned None after a camera that had delivered frames
\* was lost to a failed initialize_camera
C16_Witness ==
    /\ returned = "None"
    /\ camera_history = "failed" /\ camera = "released"
    /\ result.details # "none"

\* C17: the tracker holds at most one capture device open, the one of its
\* current capture object; initialize_camera that opens a device ends with
\* exactly that one open, and after cleanup none is open.
C17_OneDevice ==
    [][/\ open_devices' \in {0, 1}
       /\ open_devices' = 1 <=> camera' = "open"
       /\ (\E i \in CameraIndexes : initialize_camera(i, "opened")) =>
              open_devices' = 1
       /\ cleanup => open_devices' = 0]_vars

\* a camera opened on another index while one was open
C17_Witness ==
    /\ camera = "open" /\ camera_history = "reopened"
    /\ camera_index = MaxCameraIndex
    /\ open_devices = 1

\* ======================================================== absent detector
\* C18: when the object detector failed to load, phone_detection_enabled
\* stays false in every step, every result reports no phone with confidence
\* 0, and the score of a frame with a phone in view is the score of the same
\* frame without the phone.
C18_NoDetectorNoPenalty ==
    [][~phone_detection_enabled =>
          /\ ~phone_detection_enabled'
          /\ ~result'.phone_detected
          /\ result'.phone_confidence = 0
          /\ LET f == [avg_ear |-> result'.avg_ear,
                       pitch |-> result'.pitch,
                       yaw |-> result'.yaw,
                       phone_detected |-> TRUE,
                       hands_near_face |-> result'.hands_near_face]
             IN  (result'.details = "metrics" /\ AnalyzeFace(f)) =>
                    /\ result'.focus_score =
                           FocusScore([f EXCEPT !.phone_detected = FALSE])
                    /\ result'.focus_score =
                           BaseFocusScore(f) - HandPenaltyAmount(f)]_vars

\* without the detector a nominal frame with hands near the face scored
\* with the hand penalty alone
C18_Witness ==
    /\ ~phone_detection_enabled
    /\ result.details = "metrics"
    /\ result.hands_near_face /\ ~result.phone_detected
    /\ result.avg_ear = 20 /\ result.pitch = 0 /\ result.yaw = 0
    /\ result.focus_score = ScoreOne - (ScoreOne * HAND_NEAR_FACE_PENALTY) \div Hundredths

\* ============================================================== sensitivity
\* C19: set_sensitivity with a preset name sets the three profile fields to
\* the values of that preset whatever they were: "high" 20 / 30 / 2,
\* "medium" 30 / 45 / 3, "low" 40 / 55 / 5.
C19_PresetsFixed ==
    [][/\ set_sensitivity("high") =>
              /\ HEAD_PITCH_THRESHOLD' = 20
              /\ HEAD_YAW_THRESHOLD' = 30
              /\ DISTRACTION_TIME_LIMIT' = 2
       /\ set_sensitivity("medium") =>
              /\ HEAD_PITCH_THRESHOLD' = 30
              /\ HEAD_YAW_THRESHOLD' = 45
              /\ DISTRACTION_TIME_LIMIT' = 3
       /\ set_sensitivity("low") =>
              /\ HEAD_PITCH_THRESHOLD' = 40
              /\ HEAD_YAW_THRESHOLD' = 55
              /\ DISTRACTION_TIME_LIMIT' = 5]_vars

\* the high preset in force on a tracker constructed with the medium one,
\* in a session that has counted a distraction
C19_Witness ==
    /\ HEAD_PITCH_THRESHOLD = 20 /\ HEAD_YAW_THRESHOLD = 30
    /\ DISTRACTION_TIME_LIMIT = 2
    /\ is_tracking /\ distraction_count > 0

\* ============================================= transitions of the machine
\* C22: a focused sample leaves distraction_start_time empty and
\* last_focus_time = now; an unfocused sample taken with distraction_start_time
\* empty sets it to now, invokes no callback and leaves distraction_count; an
\* unfocused sample taken less than DISTRACTION_TIME_LIMIT after
\* distraction_start_time changes nothing in the machine.
C22_Transitions ==
    [][LET f == [avg_ear |-> result'.avg_ear, pitch |-> result'.pitch,
                 yaw |-> result'.yaw,
                 phone_detected |-> result'.phone_detected,
                 hands_near_face |-> result'.hands_near_face]
       IN  (/\ result'.details = "metrics"
            /\ now' = now /\ is_tracking' = is_tracking
            /\ AnalyzeFace(f)) =>
              /\ result'.is_focused =>
                    /\ distraction_start_time' = None
                    /\ last_focus_time' = now
                    /\ callbacks' = callbacks
                    /\ distraction_count' = distraction_count
              /\ (~result'.is_focused /\ distraction_start_time = None) =>
                    /\ distraction_start_time' = now
                    /\ callbacks' = callbacks
                    /\ distraction_count' = distraction_count
                    /\ last_focus_time' = last_focus_time
              /\ (/\ ~result'.is_focused
                  /\ distraction_start_time # None
                  /\ now - distraction_start_time < DISTRACTION_TIME_LIMIT) =>
                    /\ distraction_start_time' = distraction_start_time
                    /\ callbacks' = callbacks
                    /\ distraction_count' = distraction_count
                    /\ last_focus_time' = last_focus_time]_vars

\* a second unfocused sample inside the limit, in a session with a callback,
\* after an earlier focused sample
C22_Witness ==
    /\ is_tracking /\ distraction_callback
    /\ run.start # None /\ run.last > run.start
    /\ distraction_start_time = run.start
    /\ now - distraction_start_time < DISTRACTION_TIME_LIMIT
    /\ last_focus_time < run.start
    /\ Len(focus_events) = 3 /\ focus_events[1].is_focused

\* C23 as stated: with tracking active a frame without a face is an
\* unfocused sample for the machine: it moves distraction_start_time as an
\* unfocused sample does, and invokes the callback and counts once the
\* limit is reached.
C23_NoFaceIsUnfocused ==
    [][(is_tracking /\ \E p, h \in BOOLEAN : AnalyzeNoFace(p, h)) =>
          /\ distraction_start_time' = NextDistractionStart(FALSE, now)
          /\ (distraction_start_time # None /\ LimitReached(now)) =>
                 /\ distraction_count' = distraction_count + 1
                 /\ CallbackInvoked => callbacks' = callbacks + 1]_vars

\* C24: get_session_stats on a non-empty log returns focus_time +
\* distraction_time = number of samples, focus_time = number of focused
\* samples, focus_percentage = 100 * focus_time / total in [0, 100],
\* average_focus_score = mean of the logged scores in [0, 1], and changes
\* nothing of the tracker.
C24_StatsOfLog ==
    [][(stats' # stats /\ focus_events # <<>>) =>
          LET total == Len(focus_events)
              focused == SelectSeq(focus_events, LAMBDA e : e.is_focused)
          IN  /\ stats'.focus_time + stats'.distraction_time = total
              /\ stats'.focus_time = Len(focused)
              /\ stats'.focus_percentage * total =
                     stats'.focus_time * FullPercentage
              /\ stats'.focus_percentage \in 0..FullPercentage
              /\ stats'.average_focus_score * total = SumScores(focus_events)
              /\ stats'.average_focus_score \in 0..ScoreOne
              /\ stats'.total_events = total
              /\ UNCHANGED <<now, is_tracking, distraction_callback,
                             HEAD_PITCH_THRESHOLD, HEAD_YAW_THRESHOLD,
                             DISTRACTION_TIME_LIMIT, FOCUS_THRESHOLD,
                             last_focus_time, current_focus_score,
                             distraction_start_time, session_start_time,
                             focus_events, distraction_count, result>>]_vars

\* statistics read from a log of one focused and two unfocused samples
C24_Witness ==
    /\ stats = SessionStats
    /\ stats.total_events = 3
    /\ stats.focus_time = 1 /\ stats.distraction_time = 2
    /\ stats.focus_percentage * 3 = FullPercentage
    /\ stats.average_focus_score \in 1..(ScoreOne - 1)

\* C26 as stated: the distraction_count get_session_stats reports is the
\* number of callback invocations since the most recent start_tracking.
C26_CountIsCallbacks == SessionStats.distraction_count = callbacks

\* C26 amended: get_session_stats reports distraction_count, which counts the
\* samples that reached the limit since the most recent start_tracking; a
\* callback invocation always comes with one count, and a count comes with a
\* callback invocation exactly when tracking is active and a callback is
\* registered, so the callbacks never outnumber the count.
C26_CountAndCallbacks ==
    [][/\ SessionStats'.distraction_count = distraction_count'
       /\ callbacks' <= distraction_count'
       /\ callbacks' > callbacks =>
              /\ callbacks' = callbacks + 1
              /\ distraction_count' = distraction_count + 1
       /\ distraction_count' > distraction_count =>
              /\ distraction_count' = distraction_count + 1
              /\ ~result'.is_focused
              /\ now - distraction_start_time >= DISTRACTION_TIME_LIMIT
              /\ callbacks' = callbacks + 1 <=>
                     (distraction_callback /\ is_tracking)]_vars

\* a session in which one count came with a callback and one without
C26_Witness ==
    /\ is_tracking /\ distraction_count = 2 /\ callbacks = 1

\* ===================================================== degenerate landmarks
\* C25: an eye with fewer than 6 points or a zero sum of vertical distances
\* has ear 0, a zero eye width gives gaze "center", a pose solve that fails
\* or raises gives pitch = yaw = 0; and analyze_focus_level on such a face
\* returns a result from these metrics with focus_score in [0, 1], moves the
\* state machine by its is_focused and, while tracking, logs the sample.
C25_DegeneracyAbsorbed ==
    [][LET l == face_metrics'.landmarks
       IN  AnalyzeLandmarks(l) =>
              /\ (l.left.points < 6 \/ l.left.A + l.left.B = 0) =>
                     face_metrics'.left_ear = 0
              /\ (l.right.points < 6 \/ l.right.A + l.right.B = 0) =>
                     face_metrics'.right_ear = 0
              /\ (l.left_eye_width = 0 \/ l.right_eye_width = 0) =>
                     face_metrics'.gaze = "center"
              /\ l.solve # "solved" =>
                     (face_metrics'.pitch = 0 /\ face_metrics'.yaw = 0)
              /\ result'.details = "metrics"
              /\ result'.avg_ear * 2 =
                     face_metrics'.left_ear + face_metrics'.right_ear
              /\ result'.pitch = face_metrics'.pitch
              /\ result'.yaw = face_metrics'.yaw
              /\ result'.focus_score \in 0..ScoreOne
              /\ current_focus_score' = result'.focus_score
              /\ distraction_start_time' =
                     NextDistractionStart(result'.is_focused, now)
              /\ is_tracking =>
                     focus_events' =
                         Append(focus_events,
                                Event(result'.focus_score, result'.is_focused))]_vars

\* a tracked sample of a face with one eye of 5 points and one eye with no
\* height, after a sample whose pose did not solve
C25_Witness ==
    /\ is_tracking /\ Len(focus_events) = 2
    /\ face_metrics.landmarks.left.points = 5
    /\ face_metrics.landmarks.right.points = 6
    /\ face_metrics.landmarks.right.A + face_metrics.landmarks.right.B = 0
    /\ face_metrics.left_ear = 0 /\ face_metrics.right_ear = 0
    /\ result.avg_ear = 0 /\ ~result.is_focused
    /\ focus_events[1].focus_score = ScoreOne
    /\ focus_events[2].focus_score = result.focus_score

\* =========================================================== SessionManager
\* C27 as stated: whenever start_session returns True the new session is
\* not paused and no pause is in progress.
C27_StartsUnpaused ==
    [][(start_session /\ ~session_active) =>
          (~paused' /\ pause_start_time' = None)]_vars

\* C28 as stated: while the session is paused the elapsed_time of
\* get_session_status does not advance and remaining_time does not
\* decrease, remaining_time never increases during a session, and the
\* duration_actual end_session saves excludes every pause, the one in
\* progress too.
C28_PausedTimeNotCounted ==
    [][/\ (/\ session_active /\ session_active'
           /\ current_session' = current_session
           /\ paused /\ paused') =>
              /\ SessionStatus'.elapsed_time = SessionStatus.elapsed_time
              /\ SessionStatus'.remaining_time = SessionStatus.remaining_time
       /\ (/\ session_active /\ session_active'
           /\ current_session' = current_session) =>
              SessionStatus'.remaining_time <= SessionStatus.remaining_time
       /\ Len(saved') > Len(saved) =>
              saved'[Len(saved')].duration_actual =
                  now - manager_start_time - total_pause_time
                      - (IF paused THEN now - pause_start_time ELSE 0)]_vars

\* C29 as stated: a timer thread stays in its loop only for its own
\* session, reports no status of another session, and
\* session_end_callback is invoked at most once per session.
C29_OneTimerThread ==
    [][/\ \A t \in Sessions :
              /\ (TimerTest(t) /\ timers'[t].pc = "sleep") =>
                     current_session = t
              /\ TimerReport(t) => timers[t].session \in {t, None}
       /\ \A n \in Sessions : delivered'[n] <= 1]_vars

\* C30 as stated: however end_session is invoked from the timer thread and
\* the UI thread, no invocation raises and no session is saved twice.
C30_EndsOnce ==
    /\ ui.returned # "raised"
    /\ \A t \in Sessions : timers[t].returned # "raised"
    /\ \A i, j \in 1..Len(saved) : saved[i].id = saved[j].id => i = j

\* ============================================================== the window
\* The window's handlers run on the UI thread; gui_update_loop runs on a
\* thread of its own and calls process_frame.  No lock is taken anywhere.

\* the window after __init__: setup_callbacks has registered the
\* distraction callback and initialize_components has opened the camera
\* and set the sensitivity "medium"
InitGui ==
    /\ now = 0
    /\ is_tracking = FALSE
    /\ distraction_callback = TRUE
    /\ HEAD_PITCH_THRESHOLD = 30
    /\ HEAD_YAW_THRESHOLD = 45
    /\ DISTRACTION_TIME_LIMIT = 3
    /\ FOCUS_THRESHOLD = HalfScore
    /\ last_focus_time = 0
    /\ current_focus_score = 0
    /\ distraction_start_time = None
    /\ session_start_time = None
    /\ focus_events = <<>>
    /\ distraction_count = 0
    /\ result = NoResult
    /\ callbacks = 0
    /\ run = NoRun
    /\ stats = NoStats
    /\ phone_detection_enabled = TRUE
    /\ camera = "open"
    /\ camera_index = 0
    /\ returned = "True"
    /\ open_devices = 1
    /\ camera_history = "opened"
    /\ face_metrics = NoMetrics
    /\ gui_thread = NoGuiThread
    /\ ManagerConstructed

\* positions of the frame thread inside analyze_focus_level, from the state
\* machine on
InFlight == {"machine", "callback", "log", "append", "return"}

\* the window's start_session, with start_gui_update_thread
GuiStartSession ==
    /\ ~gui_thread.session_active
    /\ StartSession
    /\ IF ~session_active
       THEN /\ StartTracking
            /\ gui_thread' = [gui_thread EXCEPT
                                 !.session_active = TRUE,
                                 !.pc = IF @ = "none" THEN "loop" ELSE @]
       ELSE /\ UNCHANGED <<now, trackerVars, cameraVars>>
            /\ UNCHANGED <<callbacks, run, gui_thread>>
    /\ UNCHANGED face_metrics

\* the window's end_session
GuiEndSession ==
    /\ gui_thread.session_active
    /\ EndSession
    /\ StopTracking
    /\ gui_thread' = [gui_thread EXCEPT !.session_active = FALSE]
    /\ UNCHANGED face_metrics

\* what a step of the frame thread leaves alone but for the tracker's
\* fields named in changed
FrameThreadKeeps ==
    /\ UNCHANGED <<now, is_tracking, distraction_callback,
                   HEAD_PITCH_THRESHOLD, HEAD_YAW_THRESHOLD,
                   DISTRACTION_TIME_LIMIT, FOCUS_THRESHOLD,
                   session_start_time, stats, phone_detection_enabled>>
    /\ UNCHANGED <<camera, camera_index, open_devices, camera_history>>
    /\ UNCHANGED <<managerVars, face_metrics>>

\* gui_update_loop, line 1376: the loop test (running is True until the
\* window closes)
GuiLoopTest ==
    /\ gui_thread.pc = "loop"
    /\ gui_thread' = [gui_thread EXCEPT
                         !.pc = IF gui_thread.session_active
                                THEN "check" ELSE "none"]
    /\ UNCHANGED <<last_focus_time, current_focus_score,
                   distraction_start_time, focus_events, distraction_count,
                   result, callbacks, run, returned>>
    /\ FrameThreadKeeps

\* line 1378: process a frame if there is a camera and tracking is active,
\* else sleep and test the loop again
GuiCheck ==
    /\ gui_thread.pc = "check"
    /\ gui_thread' = [gui_thread EXCEPT
                         !.pc = IF camera # "none" /\ is_tracking
                                THEN "frame" ELSE "loop"]
    /\ UNCHANGED <<last_focus_time, current_focus_score,
                   distraction_start_time, focus_events, distraction_count,
                   result, callbacks, run, returned>>
    /\ FrameThreadKeeps

\* line 1379, process_frame up to the focus score of analyze_focus_level
\* (line 583).  process_frame returns None, or analyze_focus_level returns
\* at once when there is no face; unpacking what process_frame returned
\* then raises and the loop breaks.
GuiFrame(read) ==
    /\ gui_thread.pc = "frame"
    /\ IF ~CameraReadable \/ ~read.ret
       THEN /\ returned' = "None"
            /\ gui_thread' = [gui_thread EXCEPT !.pc = "none"]
            /\ UNCHANGED <<last_focus_time, current_focus_score,
                           distraction_start_time, focus_events,
                           distraction_count, result, callbacks, run>>
            /\ FrameThreadKeeps
       ELSE IF ~read.face
       THEN /\ NoFaceAnalysis(read.metrics.phone_detected,
                              read.metrics.hands_near_face)
            /\ returned' = "frame"
            /\ gui_thread' = [gui_thread EXCEPT !.pc = "none"]
            /\ UNCHANGED <<camera, camera_index, open_devices,
                           camera_history>>
            /\ UNCHANGED <<managerVars, face_metrics>>
       ELSE LET phone == detect_phone(read.metrics.phone_detected)
                f == [read.metrics EXCEPT
                         !.phone_detected = phone.phone_detected]
            IN  /\ gui_thread' = [gui_thread EXCEPT
                                     !.pc = "machine",
                                     !.frame = f,
                                     !.focus_score = FocusScore(f),
                                     !.is_focused = IsFocused(FocusScore(f))]
                /\ UNCHANGED <<last_focus_time, current_focus_score,
                               distraction_start_time, focus_events,
                               distraction_count, result, callbacks, run,
                               returned>>
                /\ FrameThreadKeeps

\* lines 585-594: the state machine up to the test before the callback
GuiMachine ==
    LET is_focused == gui_thread.is_focused
        current_time == now
        counted == /\ ~is_focused
                   /\ distraction_start_time # None
                   /\ LimitReached(current_time)
        called == counted /\ CallbackInvoked
    IN  /\ gui_thread.pc = "machine"
        /\ last_focus_time' = IF is_focused THEN current_time
                              ELSE last_focus_time
        /\ distraction_start_time' =
               IF is_focused THEN None
               ELSE IF distraction_start_time = None THEN current_time
               ELSE distraction_start_time
        /\ run' = NextRun(is_focused, current_time, counted, called)
        /\ gui_thread' = [gui_thread EXCEPT
                             !.pc = IF counted THEN "callback" ELSE "log",
                             !.current_time = current_time,
                             !.counted = counted,
                             !.called = called]
        /\ UNCHANGED <<current_focus_score, focus_events, distraction_count,
                       result, callbacks, returned>>
        /\ FrameThreadKeeps

\* lines 595-597: the callback, if line 594 found one registered and
\* tracking active, the count and the new start of the run
GuiCallback ==
    /\ gui_thread.pc = "callback"
    /\ callbacks' = IF gui_thread.called THEN callbacks + 1 ELSE callbacks
    /\ distraction_count' = distraction_count + 1
    /\ distraction_start_time' = gui_thread.current_time
    /\ gui_thread' = [gui_thread EXCEPT !.pc = "log"]
    /\ UNCHANGED <<last_focus_time, current_focus_score, focus_events,
                   result, run, returned>>
    /\ FrameThreadKeeps

\* lines 599-601: the score, and the test before the log
GuiLog ==
    /\ gui_thread.pc = "log"
    /\ current_focus_score' = gui_thread.focus_score
    /\ gui_thread' = [gui_thread EXCEPT
                         !.pc = IF is_tracking THEN "append" ELSE "return"]
    /\ UNCHANGED <<last_focus_time, distraction_start_time, focus_events,
                   distraction_count, result, callbacks, run, returned>>
    /\ FrameThreadKeeps

\* lines 602-614: the event is appended
GuiAppend ==
    /\ gui_thread.pc = "append"
    /\ focus_events' = Append(focus_events,
                              Event(gui_thread.focus_score,
                                    gui_thread.is_focused))
    /\ gui_thread' = [gui_thread EXCEPT !.pc = "return"]
    /\ UNCHANGED <<last_focus_time, current_focus_score,
                   distraction_start_time, distraction_count, result,
                   callbacks, run, returned>>
    /\ FrameThreadKeeps

\* analyze_focus_level and process_frame return; unpacking the frame into
\* (frame, focus_data) at line 1379 raises, and the loop breaks
GuiReturn ==
    LET f == gui_thread.frame
    IN  /\ gui_thread.pc = "return"
        /\ result' = [focus_score |-> gui_thread.focus_score,
                      is_focused |-> gui_thread.is_focused,
                      avg_ear |-> f.avg_ear, pitch |-> f.pitch, yaw |-> f.yaw,
                      phone_detected |-> f.phone_detected,
                      phone_confidence |->
                          IF f.phone_detected THEN PHONE_CONFIDENCE_THRESHOLD
                          ELSE 0,
                      hands_near_face |-> f.hands_near_face,
                      details |-> "metrics"]
        /\ returned' = "frame"
        /\ gui_thread' = [NoGuiThread EXCEPT
                             !.session_active = gui_thread.session_active]
        /\ UNCHANGED <<last_focus_time, current_focus_score,
                       distraction_start_time, focus_events,
                       distraction_count, callbacks, run>>
        /\ FrameThreadKeeps

\* a step of the frame thread
GuiThreadStep ==
    \/ GuiLoopTest
    \/ GuiCheck
    \/ \E read \in CameraReads : GuiFrame(read)
    \/ GuiMachine
    \/ GuiCallback
    \/ GuiLog
    \/ GuiAppend
    \/ GuiReturn

NextGui ==
    \/ Tick
    \/ GuiStartSession
    \/ GuiEndSession
    \/ GuiThreadStep

SpecGui == InitGui /\ [][NextGui]_vars

\* C21 as stated: no handler of the window that calls the tracker runs
\* while the frame thread is inside analyze_focus_level, and no callback is
\* invoked and no event appended once stop_tracking has run.
C21_Serialized ==
    [][/\ (GuiStartSession \/ GuiEndSession) =>
              gui_thread.pc \notin InFlight
       /\ (callbacks' > callbacks \/ Len(focus_events') > Len(focus_events)) =>
              is_tracking]_vars

====
